---- MODULE Spec2Model ----
(***************************************************************************)
(* A model of the scrcpy client (src/scrcpy/core.py, control.py,           *)
(* calculate.py).                                                          *)
(*                                                                         *)
(* Spec      the session: the caller's thread calling start() and stop(),  *)
(*           and the frame loops (inline in the caller's thread, or in     *)
(*           worker threads), interleaved statement group by statement     *)
(*           group.                                                        *)
(* SpecLive  Spec with the fairness of thread scheduling.                  *)
(* SpecShot  Spec with a thread that calls screenshot().                   *)
(* SpecEvt   a streaming session whose reads and Frame events are          *)
(*           recorded.                                                     *)
(* SpecCmd   one control command (control.py) sent by the caller in each   *)
(*           state a session can be in.                                    *)
(* SpecSeq   Spec with set_clipboard calls of the caller.                  *)
(* SpecClip  one get_clipboard call (control.py), step by step, and the    *)
(*           peer of the control socket; SpecClipLive adds the fairness of *)
(*           the caller's thread.                                          *)
(* SpecPar   a streaming session in which sender threads call keycode      *)
(*           while the caller calls get_clipboard.                         *)
(* SpecSet   a streaming session in which sender threads call              *)
(*           set_clipboard or keycode.                                     *)
(***************************************************************************)
EXTENDS Integers, Sequences, FiniteSets, TLC

\* ------------------------------------------------------------------ bounds

\* Worker threads that can exist at once (a threaded start() needs a free one).
MaxWorkers == 1

\* Frames the codec returns for one chunk read from the video socket.
MaxBatch == 1

\* Threads, besides the caller's, that send control commands.
MaxSenders == 2

\* ---------------------------------------------------------------- constants

None == <<>>

\* Frame sizes (width, height) the device may send: portrait and landscape.
Dims == {<<1, 2>>, <<2, 1>>}

\* Thread 0 is the caller's thread; 1..MaxWorkers are stream_loop_thread's.
Caller == 0
Workers == 1..MaxWorkers
Runners == {Caller} \cup Workers

\* The threads of the application that send control commands.
Senders == 1..MaxSenders

VARIABLES
    \* Client fields (core.py 56-88)
    alive,            \* self.alive
    resolution,       \* self.resolution: None or <<w, h>>
    last_frame,       \* self.last_frame: None or the frame's <<w, h>>
    server_stream,    \* self.__server_stream: "none" | "open" | "closed"
    video_socket,     \* self.__video_socket:  "none" | "open" | "closed"
    control_socket,   \* self.control_socket:  "none" | "open" | "closed"
    block_frame,      \* self.block_frame
    frame_locker,     \* self._frame_locker is held
    \* Threads
    pc,               \* position of each thread
    batch,            \* frames decoded from the last chunk, not yet handled
    threaded,         \* the argument of the start() call in progress
    dummy_byte,       \* the dummy byte start() read, until it is checked
    \* History
    ret0,             \* how the caller's last API call ended
    evt,              \* the Disconnect event of each running frame loop
    firstFrame,       \* the first frame decoded since the last accepted start()
    stopped,          \* a stop() of the caller returned since the last start()
    frame_evt,        \* the reads and Frame events of a frame loop under watch
    \* ControlSender (control.py)
    clipboard_sequence,  \* self._clipboard_sequence
    wire,             \* the messages the last command wrote to the control socket
    cret,             \* how the last command ended ("none": no command yet)
    cmd,              \* the last command called and its arguments
    sessionClips,     \* sequence numbers written to the current control socket
    \* get_clipboard (control.py 170-216) and the peer of the control socket
    gpc,              \* position of the caller inside get_clipboard
    polled,           \* iterations of the poll loop entered and left by a sleep
    elapsed,          \* milliseconds slept by the poll loop
    glen,             \* `length`
    clip,             \* the bytes get_clipboard returned
    blocking,         \* the blocking mode of the control socket
    locked,           \* control_socket_lock is held
    rx,               \* bytes received on the control socket, not yet read
    peer,             \* "silent" | "responsive" | "replying" | "closed"
    reply,            \* bytes the peer has yet to send
    \* Threads that send control commands besides the caller
    spc,              \* position of each sender thread inside its command
    sreg,             \* the message each sender thread is building
    line              \* every message written to the control socket, in order

vars == <<alive, resolution, last_frame, server_stream, video_socket,
          control_socket, block_frame, frame_locker, pc, batch, threaded,
          dummy_byte, ret0, evt, firstFrame, stopped, frame_evt,
          clipboard_sequence, wire, cret, cmd,
          sessionClips, gpc, polled, elapsed, glen, clip, blocking, locked,
          rx, peer, reply, spc, sreg, line>>

\* What only control commands change.
cmdVars == <<clipboard_sequence, wire, cret, cmd>>

\* What only get_clipboard and the peer change.
getVars == <<gpc, polled, elapsed, glen, clip, blocking, locked, rx, peer, reply>>

\* What only the sender threads and get_clipboard's request change.
parVars == <<spc, sreg, line>>

sockets == <<server_stream, video_socket, control_socket>>

\* Positions inside __stream_loop: before `alive = True`, at the `while`, at
\* the read, in the `for frame` loop, in the except clause, and in the two
\* halves of the stop() it calls.
LoopPcs == {"enter", "test", "recv", "frame", "store", "latch", "handler",
            "h_stop", "h_close"}

InLoop(r) == pc[r] \in LoopPcs

\* A thread slot with no thread running in it.
Free(w) == pc[w] \in {"off", "dead"}

Batches == UNION {[1..n -> Dims] : n \in 0..MaxBatch}

\* -------------------------------------------------------------------- Init

\* Nothing was read and no Frame event dispatched: the last read, the parity
\* of the number of Frame events, the argument of the last one, and whether
\* any carried None.
NoFrameEvt == [read |-> "none", n |-> 0, arg |-> None, empty |-> FALSE]

\* No get_clipboard call is in progress; the socket is in blocking mode, as
\* created (core.py 135), and its peer has sent nothing.
GetIdle ==
    /\ gpc = "out"
    /\ polled = 0
    /\ elapsed = 0
    /\ glen = 0
    /\ clip = <<>>
    /\ blocking = TRUE
    /\ locked = FALSE
    /\ rx = <<>>
    /\ peer = "silent"
    /\ reply = <<>>

\* The package of a thread that is not inside a command.
NoPackage == [type |-> "none", sequence |-> 0]

\* No sender thread is inside a command; nothing was written.
SendersIdle ==
    /\ spc = [s \in Senders |-> "idle"]
    /\ sreg = [s \in Senders |-> NoPackage]
    /\ line = <<>>

\* Client.__init__ (core.py 38-88)
Init ==
    /\ alive = FALSE
    /\ resolution = None
    /\ last_frame = None
    /\ server_stream = "none"
    /\ video_socket = "none"
    /\ control_socket = "none"
    /\ block_frame \in BOOLEAN
    /\ frame_locker = FALSE
    /\ pc = [r \in Runners |-> IF r = Caller THEN "idle" ELSE "off"]
    /\ batch = [r \in Runners |-> <<>>]
    /\ threaded = FALSE
    /\ dummy_byte = "unset"
    /\ frame_evt = NoFrameEvt
    /\ ret0 = "ok"
    /\ evt = [r \in Runners |-> "none"]
    /\ firstFrame = None
    /\ stopped = FALSE
    /\ clipboard_sequence = 0
    /\ wire = <<>>
    /\ cret = "none"
    /\ cmd = [name |-> "none", args |-> <<>>]
    /\ sessionClips = <<>>
    /\ GetIdle
    /\ SendersIdle

\* ------------------------------------------------------------------ start()

\* `assert self.alive is False` (core.py 216): TRUE when start() goes on.
StartGuard == alive = FALSE

\* start(), core.py 216-219: the assert and the reset of resolution. The
\* device is connected already, so __init_device (99-117) finds it.
StartBegin ==
    /\ pc[Caller] = "idle"
    /\ \E th \in BOOLEAN :
        IF ~StartGuard
        THEN /\ ret0' = "AssertionError"
             /\ UNCHANGED <<resolution, pc, threaded, firstFrame, stopped>>
        ELSE /\ resolution' = None
             /\ firstFrame' = None
             /\ stopped' = FALSE
             /\ threaded' = th
             /\ pc' = [pc EXCEPT ![Caller] = "deploying"]
             /\ ret0' = "ok"
    /\ UNCHANGED <<cmdVars, getVars, sessionClips, parVars, frame_locker,
                   dummy_byte, frame_evt>>
    /\ UNCHANGED <<alive, last_frame, sockets, block_frame, batch, evt>>

\* __deploy_server (core.py 152-206): the push or the shell may fail; on
\* success the server's shell stream replaces __server_stream.
StartDeploy ==
    /\ pc[Caller] = "deploying"
    /\ \E ok \in BOOLEAN :
        IF ok
        THEN /\ server_stream' = "open"
             /\ pc' = [pc EXCEPT ![Caller] = "handshaking"]
             /\ UNCHANGED <<ret0, threaded>>
        ELSE /\ server_stream' = server_stream
             /\ pc' = [pc EXCEPT ![Caller] = "idle"]
             /\ ret0' = "StartErr"
             /\ threaded' = FALSE
    /\ UNCHANGED <<cmdVars, getVars, sessionClips, parVars, frame_locker,
                   dummy_byte, frame_evt>>
    /\ UNCHANGED <<alive, resolution, last_frame, video_socket, control_socket,
                   block_frame, batch, evt, firstFrame, stopped>>

\* How the connection goes (core.py 119-145): no video socket within the
\* timeout, no control socket, no dummy byte within the timeout, or a read
\* of the dummy byte that returns 0x00, nothing, or another byte.
HandshakeOutcomes == {"ok", "novideo", "nocontrol", "timeout", "empty", "bad"}

\* The lowest free worker slot.
FreeSlot == CHOOSE w \in Workers : Free(w) /\ \A v \in Workers : Free(v) => w <= v

\* What recv(1) returned (core.py 141).
DummyByte(o) ==
    CASE o = "ok" -> "zero"
      [] o = "empty" -> "empty"
      [] OTHER -> "other"

\* __init_server_connection up to the read of the dummy byte (core.py 119-145)
StartHandshake ==
    /\ pc[Caller] = "handshaking"
    /\ \E o \in HandshakeOutcomes :
        /\ video_socket' = IF o = "novideo" THEN video_socket ELSE "open"
        /\ control_socket' = IF o \in {"novideo", "nocontrol"}
                             THEN control_socket ELSE "open"
        /\ sessionClips' = IF o \in {"novideo", "nocontrol"}
                           THEN sessionClips ELSE <<>>
        /\ IF o \in {"novideo", "nocontrol", "timeout"}
           THEN /\ pc' = [pc EXCEPT ![Caller] = "idle"]
                /\ ret0' = "StartErr"
                /\ threaded' = FALSE
                /\ dummy_byte' = "unset"
           ELSE /\ pc' = [pc EXCEPT ![Caller] = "checking"]
                /\ dummy_byte' = DummyByte(o)
                /\ UNCHANGED <<ret0, threaded>>
    /\ UNCHANGED <<cmdVars, getVars, parVars, frame_locker, frame_evt>>
    /\ UNCHANGED <<alive, resolution, last_frame, server_stream, block_frame,
                   batch, evt, firstFrame, stopped>>

\* The check taking any byte for the dummy byte.
DummyAny(byte) == byte # "empty"

\* `if not dummy_byte or dummy_byte != b"\x00": raise` (core.py 147-148)
DummyOk(byte) == byte = "zero"

\* The check of the dummy byte, the Init event and the start of the frame
\* loop, in a new thread or inline (core.py 147-228).
StartCheck ==
    /\ pc[Caller] = "checking"
    /\ \E listenerOk \in BOOLEAN :
        IF ~DummyOk(dummy_byte)
        THEN /\ pc' = [pc EXCEPT ![Caller] = "idle"]
             /\ ret0' = "StartErr"
        ELSE IF ~listenerOk
        THEN /\ pc' = [pc EXCEPT ![Caller] = "idle"]
             /\ ret0' = "ListenerErr"
        ELSE IF threaded
        THEN /\ \E w \in Workers : Free(w)
             /\ pc' = [pc EXCEPT ![Caller] = "idle", ![FreeSlot] = "enter"]
             /\ ret0' = "ok"
        ELSE /\ pc' = [pc EXCEPT ![Caller] = "enter"]
             /\ ret0' = "ok"
    /\ threaded' = FALSE
    /\ dummy_byte' = "unset"
    /\ UNCHANGED <<cmdVars, getVars, sessionClips, parVars, frame_locker,
                   frame_evt>>
    /\ UNCHANGED <<alive, resolution, last_frame, sockets, block_frame, batch,
                   evt, firstFrame, stopped>>

\* ------------------------------------------------------------------- stop()

\* stop() with close() leaving the handle as it was.
ClosedNot(h) == h

\* A handle after close(): closed, whether or not close() raised (the
\* exception is swallowed, core.py 236-251); an unset handle is skipped.
Closed(h) == IF h = "none" THEN "none" ELSE "closed"

\* __stream_loop_silence letting the error out of the worker thread.
RaisedUncaught(r) == IF r = Caller THEN "idle" ELSE "dead"

\* How __stream_loop's `raise e` leaves thread r: start() raises to the
\* caller, a worker's __stream_loop_silence (core.py 297-301) logs and ends.
Raised(r) == IF r = Caller THEN "idle" ELSE "off"

\* stop() called by the caller: `self.alive = False` (core.py 234).
StopCall ==
    /\ pc[Caller] = "idle"
    /\ alive' = FALSE
    /\ pc' = [pc EXCEPT ![Caller] = "stop_close"]
    /\ ret0' = "ok"
    /\ UNCHANGED <<cmdVars, getVars, sessionClips, parVars, frame_locker,
                   dummy_byte, frame_evt>>
    /\ UNCHANGED <<resolution, last_frame, sockets, block_frame, batch,
                   threaded, evt, firstFrame, stopped>>

\* stop() called by the loop's except clause (core.py 294): line 234.
StopAlive(r) ==
    /\ pc[r] = "h_stop"
    /\ alive' = FALSE
    /\ pc' = [pc EXCEPT ![r] = "h_close"]
    /\ UNCHANGED <<cmdVars, getVars, sessionClips, parVars, frame_locker,
                   dummy_byte, frame_evt>>
    /\ UNCHANGED <<resolution, last_frame, sockets, block_frame, batch,
                   threaded, ret0, evt, firstFrame, stopped>>

\* core.py 235-251: the three handles are closed, and stop() returns: to the
\* caller, or to the except clause, which re-raises the error (core.py 295).
StopClose(r) ==
    /\ pc[r] \in {"stop_close", "h_close"}
    /\ server_stream' = Closed(server_stream)
    /\ control_socket' = Closed(control_socket)
    /\ video_socket' = Closed(video_socket)
    /\ IF pc[r] = "stop_close"
       THEN /\ pc' = [pc EXCEPT ![r] = "idle"]
            /\ ret0' = "ok"
            /\ stopped' = TRUE
            /\ evt' = evt
       ELSE /\ pc' = [pc EXCEPT ![r] = Raised(r)]
            /\ ret0' = IF r = Caller THEN "ConnErr" ELSE ret0
            /\ stopped' = stopped
            /\ evt' = [evt EXCEPT ![r] = "none"]
    /\ UNCHANGED <<cmdVars, getVars, sessionClips, parVars, frame_locker,
                   dummy_byte, frame_evt>>
    /\ UNCHANGED <<alive, resolution, last_frame, block_frame, batch, threaded,
                   firstFrame>>

\* ------------------------------------------------------------ __stream_loop

\* An exception that neither except clause of __stream_loop catches (raised
\* by a listener, core.py 332-333) ends the loop: start() raises it to the
\* caller, a worker thread dies of it.
Died(r) == IF r = Caller THEN "idle" ELSE "dead"

\* The loop's Disconnect record after one more Frame event.
AfterFrame(e) == IF e = "none" THEN "none" ELSE "frame_after_disc"

\* The loop's Disconnect record after one more Disconnect event.
AfterDisconnect(e) == IF e = "none" THEN "disc" ELSE "disc_twice"

\* core.py 270-271: the codec is created and alive is set.
LoopEnter(r) ==
    /\ pc[r] = "enter"
    /\ alive' = TRUE
    /\ pc' = [pc EXCEPT ![r] = "test"]
    /\ UNCHANGED <<cmdVars, getVars, sessionClips, parVars, frame_locker,
                   dummy_byte, frame_evt>>
    /\ UNCHANGED <<resolution, last_frame, sockets, block_frame, batch,
                   threaded, ret0, evt, firstFrame, stopped>>

\* `while self.alive` (core.py 272); the loop returns when alive is False.
LoopTest(r) ==
    /\ pc[r] = "test"
    /\ IF alive
       THEN /\ pc' = [pc EXCEPT ![r] = "recv"]
            /\ UNCHANGED <<ret0, evt>>
       ELSE /\ pc' = [pc EXCEPT ![r] = IF r = Caller THEN "idle" ELSE "off"]
            /\ ret0' = IF r = Caller THEN "ok" ELSE ret0
            /\ evt' = [evt EXCEPT ![r] = "none"]
    /\ UNCHANGED <<cmdVars, getVars, sessionClips, parVars, frame_locker,
                   dummy_byte, frame_evt>>
    /\ UNCHANGED <<alive, resolution, last_frame, sockets, block_frame, batch,
                   threaded, firstFrame, stopped>>

\* Frame(None) dispatched whatever block_frame says.
SuppressedNever(flag) == FALSE

\* `if not self.block_frame` (core.py 289): Frame(None) is not dispatched.
Suppressed(flag) == flag

\* core.py 274-279 and 287-290: the read of the video socket. A closed socket
\* raises OSError and an empty read ConnectionError, both caught at 291; a
\* read that would block sleeps and, unless block_frame, dispatches
\* Frame(None); a chunk is parsed and decoded into frames.
Recv(r, watched) ==
    /\ pc[r] = "recv"
    /\ \/ /\ video_socket # "open"
          /\ pc' = [pc EXCEPT ![r] = "handler"]
          /\ frame_evt' = IF watched THEN [frame_evt EXCEPT !.read = "error"]
                          ELSE frame_evt
          /\ UNCHANGED <<batch, ret0, evt, firstFrame>>
       \/ /\ video_socket = "open"
          /\ pc' = [pc EXCEPT ![r] = "handler"]
          /\ frame_evt' = IF watched THEN [frame_evt EXCEPT !.read = "error"]
                          ELSE frame_evt
          /\ UNCHANGED <<batch, ret0, evt, firstFrame>>
       \/ /\ video_socket = "open"
          /\ \E listenerOk \in BOOLEAN :
              IF Suppressed(block_frame)
              THEN /\ pc' = [pc EXCEPT ![r] = "test"]
                   /\ frame_evt' = IF watched
                                   THEN [frame_evt EXCEPT !.read = "block"]
                                   ELSE frame_evt
                   /\ UNCHANGED <<ret0, evt>>
              ELSE /\ pc' = [pc EXCEPT ![r] = IF listenerOk THEN "test" ELSE Died(r)]
                   /\ ret0' = IF ~listenerOk /\ r = Caller THEN "ListenerErr" ELSE ret0
                   /\ evt' = [evt EXCEPT ![r] = IF listenerOk THEN AfterFrame(evt[r])
                                                 ELSE "none"]
                   /\ frame_evt' = IF watched
                                   THEN [read |-> "block", n |-> 1 - frame_evt.n,
                                         arg |-> None, empty |-> TRUE]
                                   ELSE frame_evt
          /\ UNCHANGED <<batch, firstFrame>>
       \/ /\ video_socket = "open"
          /\ \E b \in Batches :
              /\ batch' = [batch EXCEPT ![r] = b]
              /\ pc' = [pc EXCEPT ![r] = IF b = <<>> THEN "test" ELSE "frame"]
              /\ firstFrame' = IF firstFrame = None /\ b # <<>> THEN b[1] ELSE firstFrame
          /\ frame_evt' = IF watched THEN [frame_evt EXCEPT !.read = "chunk"]
                          ELSE frame_evt
          /\ UNCHANGED <<ret0, evt>>
    /\ UNCHANGED <<cmdVars, getVars, sessionClips, parVars, frame_locker,
                   dummy_byte>>
    /\ UNCHANGED <<alive, resolution, last_frame, sockets, block_frame, threaded,
                   stopped>>

\* The read in a frame loop that is not under watch.
LoopRecv(r) == Recv(r, FALSE)

\* `if not self.resolution: self.resolution = (frame.width, frame.height)`
\* (core.py 283-284)
Latch(res, f) == IF res = None THEN f ELSE res

\* `if not self._frame_locker.locked()` (core.py 281): the lock is looked at,
\* never waited for.
LoopLocked(r) ==
    /\ pc[r] = "frame"
    /\ pc' = [pc EXCEPT ![r] = IF frame_locker THEN "latch" ELSE "store"]
    /\ UNCHANGED <<cmdVars, getVars, sessionClips, parVars, frame_locker,
                   dummy_byte, frame_evt>>
    /\ UNCHANGED <<alive, resolution, last_frame, sockets, block_frame, batch,
                   threaded, ret0, evt, firstFrame, stopped>>

\* core.py 282-286: one decoded frame is stored unless the lock was seen
\* held, latched and dispatched.
Frame(r, watched) ==
    /\ pc[r] \in {"store", "latch"}
    /\ LET f == Head(batch[r])
           rest == Tail(batch[r])
       IN /\ last_frame' = IF pc[r] = "latch" THEN last_frame ELSE f
          /\ resolution' = Latch(resolution, f)
          /\ frame_evt' = IF watched
                          THEN [frame_evt EXCEPT !.n = 1 - frame_evt.n, !.arg = f]
                          ELSE frame_evt
          /\ \E listenerOk \in BOOLEAN :
              IF listenerOk
              THEN /\ batch' = [batch EXCEPT ![r] = rest]
                   /\ pc' = [pc EXCEPT ![r] = IF rest = <<>> THEN "test" ELSE "frame"]
                   /\ ret0' = ret0
                   /\ evt' = [evt EXCEPT ![r] = AfterFrame(evt[r])]
              ELSE /\ batch' = [batch EXCEPT ![r] = <<>>]
                   /\ pc' = [pc EXCEPT ![r] = Died(r)]
                   /\ ret0' = IF r = Caller THEN "ListenerErr" ELSE ret0
                   /\ evt' = [evt EXCEPT ![r] = "none"]
    /\ UNCHANGED <<cmdVars, getVars, sessionClips, parVars, frame_locker,
                   dummy_byte>>
    /\ UNCHANGED <<alive, sockets, block_frame, threaded, firstFrame, stopped>>

\* The frame step in a frame loop that is not under watch.
LoopFrame(r) == Frame(r, FALSE)

\* `if self.alive` of the except clause (core.py 292): TRUE when the error
\* is handled as a disconnect.
HandlerGuard == alive

\* Where the except clause goes after the Disconnect event (core.py 294).
AfterDispatch == "h_stop"

\* core.py 291-293: the except clause dispatches Disconnect while alive and
\* goes on to stop(); otherwise the error is dropped and the loop goes on.
LoopHandler(r) ==
    /\ pc[r] = "handler"
    /\ IF HandlerGuard
       THEN \E listenerOk \in BOOLEAN :
                /\ pc' = [pc EXCEPT ![r] = IF listenerOk THEN AfterDispatch ELSE Died(r)]
                /\ ret0' = IF ~listenerOk /\ r = Caller THEN "ListenerErr" ELSE ret0
                /\ evt' = [evt EXCEPT ![r] = IF listenerOk THEN AfterDisconnect(evt[r])
                                              ELSE "none"]
       ELSE /\ pc' = [pc EXCEPT ![r] = "test"]
            /\ UNCHANGED <<ret0, evt>>
    /\ UNCHANGED <<cmdVars, getVars, sessionClips, parVars, frame_locker,
                   dummy_byte, frame_evt>>
    /\ UNCHANGED <<alive, resolution, last_frame, sockets, block_frame, batch,
                   threaded, firstFrame, stopped>>

\* -------------------------------------------------------------------- Spec

\* One step of thread r inside __stream_loop.
LoopStep(r) ==
    \/ LoopEnter(r)
    \/ LoopTest(r)
    \/ LoopRecv(r)
    \/ LoopLocked(r)
    \/ LoopFrame(r)
    \/ LoopHandler(r)
    \/ StopAlive(r)

\* A step of the session: of start() or stop() in the caller's thread, or
\* of a frame loop.
Next ==
    \/ StartBegin
    \/ StartDeploy
    \/ StartHandshake
    \/ StartCheck
    \/ StopCall
    \/ \E r \in Runners : LoopStep(r)
    \/ \E r \in Runners : StopClose(r)

Spec == Init /\ [][Next]_vars

\* What a consumer of last_frame leaves alone.
ShotFrame ==
    UNCHANGED <<alive, resolution, last_frame, sockets, block_frame, pc, batch,
                threaded, dummy_byte, frame_evt, ret0, evt, firstFrame, stopped, cmdVars,
                getVars, sessionClips, parVars>>

\* screenshot() in a thread of the application enters `with
\* self._frame_locker` (core.py 339)
ScreenshotEnter ==
    /\ ~frame_locker
    /\ frame_locker' = TRUE
    /\ ShotFrame

\* and leaves it when last_frame, if there is one, is saved (core.py 340-346).
ScreenshotExit ==
    /\ frame_locker
    /\ frame_locker' = FALSE
    /\ ShotFrame

\* The session with a thread that takes screenshots.
NextShot ==
    \/ Next
    \/ ScreenshotEnter
    \/ ScreenshotExit

SpecShot == Init /\ [][NextShot]_vars

\* The read and the frame step of a frame loop under watch.
LoopRecvSeen(r) == Recv(r, TRUE)
LoopFrameSeen(r) == Frame(r, TRUE)

\* A session streaming in a worker thread, with block_frame on or off.
InitEvt ==
    /\ alive = TRUE
    /\ resolution = None
    /\ last_frame = None
    /\ server_stream = "open"
    /\ video_socket = "open"
    /\ control_socket = "open"
    /\ block_frame \in BOOLEAN
    /\ frame_locker = FALSE
    /\ pc = [r \in Runners |-> IF r = Caller THEN "idle"
                               ELSE IF r = 1 THEN "test" ELSE "off"]
    /\ batch = [r \in Runners |-> <<>>]
    /\ threaded = FALSE
    /\ dummy_byte = "unset"
    /\ frame_evt = NoFrameEvt
    /\ ret0 = "ok"
    /\ evt = [r \in Runners |-> "none"]
    /\ firstFrame = None
    /\ stopped = FALSE
    /\ clipboard_sequence = 0
    /\ wire = <<>>
    /\ cret = "none"
    /\ cmd = [name |-> "none", args |-> <<>>]
    /\ sessionClips = <<>>
    /\ GetIdle
    /\ SendersIdle

\* The frame loop under watch, a thread that takes screenshots, and the
\* caller's stop().
NextEvt ==
    \/ StopCall
    \/ ScreenshotEnter
    \/ ScreenshotExit
    \/ \E r \in Runners : LoopTest(r)
    \/ \E r \in Runners : LoopRecvSeen(r)
    \/ \E r \in Runners : LoopLocked(r)
    \/ \E r \in Runners : LoopFrameSeen(r)
    \/ \E r \in Runners : LoopHandler(r)
    \/ \E r \in Runners : StopAlive(r)
    \/ \E r \in Runners : StopClose(r)

SpecEvt == InitEvt /\ [][NextEvt]_vars

\* Thread scheduling is fair to every thread that is inside the frame loop
\* or inside the stop() the loop calls; the caller may stop calling.
SpecLive == Spec /\ \A r \in Runners : WF_vars(LoopStep(r) \/ StopClose(r))

\* ============================================================ ControlSender

\* Pointer coordinates tried run from -1 to MaxCoord.
MaxCoord == 5

\* The sequence numbers of set_clipboard tried end at MaxSeq.
MaxSeq == 3

\* const.SC_CONTROL_MSG_INJECT_TEXT_MAX_LENGTH, scaled down.
SC_CONTROL_MSG_INJECT_TEXT_MAX_LENGTH == 2

\* const.SC_POINTER_ID_MOUSE, "virtual id -1" (control.py 90).
SC_POINTER_ID_MOUSE == -1

Coords == -1..MaxCoord

\* The resolutions a command can meet: (w, h) of the first frame.
CmdDims == {<<4, 3>>, <<100, 100>>, <<200, 200>>}

\* Text is modelled by the length of its UTF-8 encoding.
TextLens == 0..(SC_CONTROL_MSG_INJECT_TEXT_MAX_LENGTH + 1)

Min(a, b) == IF a <= b THEN a ELSE b
Max(a, b) == IF a >= b THEN a ELSE b
Abs(a) == IF a >= 0 THEN a ELSE -a

\* int() of the rational num / den, den > 0: truncation toward zero.
Trunc(num, den) == IF num >= 0 THEN num \div den ELSE -((-num) \div den)

\* The result of a conversion or of a method body: a value or an exception.
Val(v) == [err |-> "none", v |-> v]
Fail(e) == [err |-> e, v |-> 0]

\* calculate.float_to_i16 of num / den (calculate.py 1-7)
float_to_i16(num, den) ==
    IF -den <= num /\ num <= den
    THEN Val(Min(Max(Trunc(num * 32768, den), -32768), 32767))
    ELSE Fail("AssertionError")

\* calculate.float_to_u16 of num / den (calculate.py 10-16)
float_to_u16(num, den) ==
    IF 0 <= num /\ num <= den
    THEN Val(Min(Trunc(num * 65536, den), 65535))
    ELSE Fail("AssertionError")

\* struct.pack of v as 'H' succeeds for 0..65535 and raises struct.error
\* otherwise.
PackH(v) == 0 <= v /\ v <= 65535

\* `min(max(int(x), 0), max_x)` (control.py 96, 126, 277, 278)
Clamp(x, max_x) == Min(Max(x, 0), max_x)

\* inject with the socket taken as never set.
SocketSetNever(sock) == FALSE

\* `control_socket is not None` (control.py 30)
SocketSet(sock) == sock # "none"

\* What inject's send of one package leaves (control.py 30-32): nothing is
\* sent on an unset socket, send() on a closed socket raises OSError.
Send(sock) ==
    IF ~SocketSet(sock) THEN "skip"
    ELSE IF sock = "closed" THEN "OSError"
    ELSE "sent"

\* inject (control.py 26-33) around a method body that gave `body`.
inject(name, args, body) ==
    /\ cmd' = [name |-> name, args |-> args]
    /\ IF body.err # "none"
       THEN /\ cret' = body.err
            /\ wire' = <<>>
       ELSE /\ cret' = IF Send(control_socket) = "OSError" THEN "OSError" ELSE "ok"
            /\ wire' = IF Send(control_socket) = "sent" THEN <<body.v>> ELSE <<>>

\* What a command other than set_clipboard leaves alone.
CmdFrame ==
    UNCHANGED <<alive, resolution, last_frame, sockets, block_frame,
                frame_locker, pc, batch, dummy_byte, frame_evt,
                threaded, ret0, evt, firstFrame, stopped, clipboard_sequence,
                sessionClips, getVars, parVars>>

\* keycode (control.py 47-60)
keycode ==
    /\ \E k \in {3, 4}, action \in {"ACTION_DOWN", "ACTION_UP"},
          repeat \in {0, 1}, meta \in {0, 1} :
        inject("keycode", <<k, action, repeat, meta>>,
               Val([type |-> "TYPE_INJECT_KEYCODE", action |-> action,
                    keycode |-> k, repeat |-> repeat, meta |-> meta]))
    /\ CmdFrame

\* text (control.py 62-72)
text ==
    /\ \E len \in TextLens :
        inject("text", <<len>>, Val([type |-> "TYPE_INJECT_TEXT", len |-> len]))
    /\ CmdFrame

\* The body of touch (control.py 93-109); the pressure is p2 / 2.
TouchPackage(res, x, y, action, touch_id, p2) ==
    IF res = None THEN Fail("ValueError")
    ELSE LET pressure == float_to_u16(Trunc(p2, 2), 1)
         IN IF pressure.err # "none" THEN pressure
            ELSE Val([type |-> "TYPE_INJECT_TOUCH_EVENT", action |-> action,
                      touch_id |-> touch_id,
                      x |-> Clamp(x, res[1]), y |-> Clamp(y, res[2]),
                      max_x |-> res[1], max_y |-> res[2],
                      pressure |-> pressure.v])

\* touch (control.py 74-109)
touch ==
    /\ \E x \in Coords \cup {-5}, y \in Coords \cup {99999},
          action \in {"ACTION_DOWN", "ACTION_UP", "ACTION_MOVE"},
          touch_id \in {SC_POINTER_ID_MOUSE, 0}, p2 \in -1..4 :
        inject("touch", <<x, y, action, touch_id, p2>>,
               TouchPackage(resolution, x, y, action, touch_id, p2))
    /\ CmdFrame

\* The wheel movements tried, in sixteenths.
ScrollSteps == {-17, -16, -1, 0, 1, 16, 17}

\* The body of scroll (control.py 122-137)
ScrollPackage(res, x, y, h, v) ==
    IF res = None THEN Fail("ValueError")
    ELSE LET hs == float_to_i16(h, 16)
             vs == float_to_i16(v, 16)
         IN IF hs.err # "none" THEN hs
            ELSE IF vs.err # "none" THEN vs
            ELSE IF ~(PackH(hs.v) /\ PackH(vs.v)) THEN Fail("struct.error")
            ELSE Val([type |-> "TYPE_INJECT_SCROLL_EVENT",
                      x |-> Clamp(x, res[1]), y |-> Clamp(y, res[2]),
                      max_x |-> res[1], max_y |-> res[2],
                      h |-> hs.v, v |-> vs.v])

\* scroll (control.py 111-137)
scroll ==
    /\ \E x \in Coords, y \in Coords, h \in ScrollSteps, v \in ScrollSteps :
        inject("scroll", <<x, y, h, v>>, ScrollPackage(resolution, x, y, h, v))
    /\ CmdFrame

\* back_or_turn_screen_on (control.py 139-147)
back_or_turn_screen_on ==
    /\ \E action \in {"ACTION_DOWN", "ACTION_UP"} :
        inject("back_or_turn_screen_on", <<action>>,
               Val([type |-> "TYPE_BACK_OR_SCREEN_ON", action |-> action]))
    /\ CmdFrame

\* expand_notification_panel (control.py 149-154)
expand_notification_panel ==
    /\ inject("expand_notification_panel", <<>>,
              Val([type |-> "TYPE_EXPAND_NOTIFICATION_PANEL"]))
    /\ CmdFrame

\* expand_settings_panel (control.py 156-161)
expand_settings_panel ==
    /\ inject("expand_settings_panel", <<>>,
              Val([type |-> "TYPE_EXPAND_SETTINGS_PANEL"]))
    /\ CmdFrame

\* collapse_panels (control.py 163-168)
collapse_panels ==
    /\ inject("collapse_panels", <<>>, Val([type |-> "TYPE_COLLAPSE_PANELS"]))
    /\ CmdFrame

\* set_display_power (control.py 234-242)
set_display_power ==
    /\ \E on \in BOOLEAN :
        inject("set_display_power", <<on>>,
               Val([type |-> "TYPE_SET_DISPLAY_POWER", on |-> IF on THEN 1 ELSE 0]))
    /\ CmdFrame

\* rotate_device (control.py 244-249)
rotate_device ==
    /\ inject("rotate_device", <<>>, Val([type |-> "TYPE_ROTATE_DEVICE"]))
    /\ CmdFrame

\* set_clipboard (control.py 218-232): the counter is incremented by the
\* method body, before inject looks at the socket.
set_clipboard ==
    /\ pc[Caller] = "idle"
    /\ clipboard_sequence < MaxSeq
    /\ \E len \in TextLens, paste \in BOOLEAN :
        IF len > SC_CONTROL_MSG_INJECT_TEXT_MAX_LENGTH
        THEN /\ inject("set_clipboard", <<len, paste>>, Fail("ValueError"))
             /\ UNCHANGED <<clipboard_sequence, sessionClips>>
        ELSE /\ clipboard_sequence' = clipboard_sequence + 1
             /\ inject("set_clipboard", <<len, paste>>,
                       Val([type |-> "TYPE_SET_CLIPBOARD",
                            sequence |-> clipboard_sequence + 1,
                            paste |-> paste, len |-> len]))
             /\ sessionClips' = IF Send(control_socket) = "sent"
                                THEN Append(sessionClips, clipboard_sequence + 1)
                                ELSE sessionClips
    /\ UNCHANGED <<alive, resolution, last_frame, sockets, block_frame,
                frame_locker, pc, batch, dummy_byte, frame_evt,
                   threaded, ret0, evt, firstFrame, stopped, getVars, parVars>>

\* -------------------------------------------------------------------- swipe

\* The move_step_length values tried.
StepLengths == {0, 1, 2, 3, 10}

\* The arguments of swipe tried: start_x, start_y, end_x, end_y and
\* move_step_length (delay and move_steps_delay keep their defaults).
SwipeArgs ==
    (Coords \X Coords \X Coords \X Coords \X StepLengths) \cup {<<0, 0, 100, 0, 10>>}

RECURSIVE GCD(_, _)
GCD(a, b) == IF b = 0 THEN a ELSE GCD(b, a % b)

IsPow2(d) == \E e \in 0..16 : d = 2^e

\* steps_num with int() taken of hypotenuse / move_step_length alone.
StepsNumFloor(dx, dy, L) ==
    LET d2 == dx * dx + dy * dy
        fits(n) == (n * L) * (n * L) <= d2
        cap == (Abs(dx) + Abs(dy)) \div L + 1
    IN CHOOSE n \in 1..cap : (n = 1 \/ fits(n)) /\ ~fits(n + 1)

\* `steps_num = max(int(hypotenuse / move_step_length + 0.5), 1)` (control.py
\* 283-284), for L > 0: int(h / L + 0.5) is the largest n with
\* (2n - 1) L <= 2 h, and h is the square root of dx^2 + dy^2.
StepsNum(dx, dy, L) ==
    LET d2 == dx * dx + dy * dy
        fits(n) == ((2 * n - 1) * L) * ((2 * n - 1) * L) <= 4 * d2
        cap == (Abs(dx) + Abs(dy)) \div L + 1
    IN CHOOSE n \in 1..cap : (n = 1 \/ fits(n)) /\ ~fits(n + 1)

\* int(next) after the k-th `next += step` (control.py 285-299), where step
\* is the float delta / n. The sum is start + k * delta / n up to the
\* rounding of floats: exact when the step is a dyadic rational, and
\* otherwise off by less than the distance of a non-integer sum to the next
\* integer, so that int() can differ from the exact floor only where the
\* exact sum is an integer E, and gives E or E - 1 there.
AxisCands(start, delta, n, k) ==
    LET num == start * n + k * delta
        E == num \div n
        den == n \div GCD(Abs(delta), n)
    IN IF num % n = 0 /\ ~IsPow2(den) /\ E >= 1 THEN {E, E - 1} ELSE {E}

\* The points int(next_x), int(next_y) of the n steps of a swipe.
SwipePaths(sx, sy, dx, dy, n) ==
    LET paths[k \in 0..n] ==
            IF k = 0 THEN {<<>>}
            ELSE {Append(p, <<cx, cy>>) : p \in paths[k - 1],
                                          cx \in AxisCands(sx, dx, n, k),
                                          cy \in AxisCands(sy, dy, n, k)}
    IN paths[n]

\* The touch events of a swipe along path: self.touch with the default
\* pointer and pressure, ACTION_MOVE for all steps but the last (control.py
\* 290-299).
SwipeTouches(res, path) ==
    [k \in 1..Len(path) |->
        TouchPackage(res, path[k][1], path[k][2],
                     IF k < Len(path) THEN "ACTION_MOVE" ELSE "ACTION_UP",
                     SC_POINTER_ID_MOUSE, 2).v]

\* swipe (control.py 251-299). Each self.touch goes through inject: on an
\* unset socket nothing is written, on a closed one the first touch raises.
swipe ==
    /\ \E a \in SwipeArgs :
        /\ cmd' = [name |-> "swipe", args |-> a]
        /\ IF resolution = None
           THEN /\ cret' = "ValueError"
                /\ wire' = <<>>
           ELSE LET sx == Clamp(a[1], resolution[1])
                    sy == Clamp(a[2], resolution[2])
                    ex == Clamp(a[3], resolution[1])
                    ey == Clamp(a[4], resolution[2])
                    down == TouchPackage(resolution, sx, sy, "ACTION_DOWN",
                                         SC_POINTER_ID_MOUSE, 2).v
                IN IF Send(control_socket) = "OSError"
                   THEN /\ cret' = "OSError"
                        /\ wire' = <<>>
                   ELSE IF a[5] = 0
                   THEN /\ cret' = "ZeroDivisionError"
                        /\ wire' = IF Send(control_socket) = "sent"
                                   THEN <<down>> ELSE <<>>
                   ELSE \E path \in SwipePaths(sx, sy, ex - sx, ey - sy,
                                               StepsNum(ex - sx, ey - sy, a[5])) :
                        /\ cret' = "ok"
                        /\ wire' = IF Send(control_socket) = "sent"
                                   THEN <<down>> \o SwipeTouches(resolution, path)
                                   ELSE <<>>
    /\ CmdFrame

\* ------------------------------------------------------------------ SpecCmd

\* The states in which the caller can send a command: before any start(),
\* while a worker thread streams (before or after the first frame), and after
\* stop().
CmdSession ==
    /\ \E st \in {"fresh", "streaming", "stopped"} :
        /\ alive = (st = "streaming")
        /\ server_stream = CASE st = "fresh" -> "none"
                             [] st = "streaming" -> "open"
                             [] OTHER -> "closed"
        /\ video_socket = server_stream
        /\ control_socket = server_stream
        /\ resolution \in IF st = "fresh" THEN {None} ELSE {None} \cup CmdDims
        /\ pc = [r \in Runners |-> IF r = Caller THEN "idle"
                                   ELSE IF r = 1 /\ st = "streaming" THEN "test"
                                   ELSE "off"]
        /\ stopped = (st = "stopped")
    /\ last_frame = resolution
    /\ firstFrame = resolution
    /\ block_frame = FALSE
    /\ frame_locker = FALSE
    /\ batch = [r \in Runners |-> <<>>]
    /\ threaded = FALSE
    /\ dummy_byte = "unset"
    /\ frame_evt = NoFrameEvt
    /\ ret0 = "ok"
    /\ evt = [r \in Runners |-> "none"]
    /\ clipboard_sequence = 0
    /\ wire = <<>>
    /\ cret = "none"
    /\ cmd = [name |-> "none", args |-> <<>>]
    /\ sessionClips = <<>>

InitCmd == CmdSession /\ GetIdle /\ SendersIdle

\* No command was sent yet.
Once == cret = "none"

NextCmd ==
    \/ Once /\ keycode
    \/ Once /\ text
    \/ Once /\ touch
    \/ Once /\ scroll
    \/ Once /\ back_or_turn_screen_on
    \/ Once /\ expand_notification_panel
    \/ Once /\ expand_settings_panel
    \/ Once /\ collapse_panels
    \/ Once /\ set_clipboard
    \/ Once /\ set_display_power
    \/ Once /\ rotate_device
    \/ Once /\ swipe

SpecCmd == InitCmd /\ [][NextCmd]_vars

\* ------------------------------------------------------------------ SpecSeq

NextSeq == Next \/ set_clipboard

SpecSeq == Init /\ [][NextSeq]_vars

\* ------------------------------------------------------------ get_clipboard

\* The timeouts tried reach MaxPolls polling intervals.
MaxPolls == 2

\* The clipboard texts the peer sends have up to MaxClip bytes.
MaxClip == 2

\* const.TYPE_CLIPBOARD, the tag of the one message the device sends.
TYPE_CLIPBOARD == 0

\* `sleep(0.2)` (control.py 200), in milliseconds.
PollInterval == 200

\* The `timeout` arguments tried, in milliseconds.
Timeouts == {PollInterval * k + d : k \in 0..MaxPolls, d \in {0, 150}}

\* The poll loop giving up two iterations late.
PollLimitLate(timeout) == timeout \div 200 + 2

\* `range(timeout // 200)` (control.py 195): the iterations of the poll loop.
PollLimit(timeout) == timeout \div 200

\* The answer of the device to a get-clipboard request: tag, length (4 bytes,
\* big-endian) and n bytes of text.
Reply(tag, n) == <<tag, 0, 0, 0, n>> \o [i \in 1..n |-> 65]

\* struct.unpack(">i", b) of 4 bytes below 128
UnpackInt(b) == ((b[1] * 256 + b[2]) * 256 + b[3]) * 256 + b[4]

\* get_clipboard without its `finally` clause.
FinallySkipped(mode) == mode

\* `finally: s.setblocking(True)` (control.py 208-209): the blocking mode of
\* the socket once the poll loop was left, whatever it was.
Finally(mode) == TRUE

\* get_clipboard returns or raises: `finally` restores the blocking mode if
\* the poll loop was reached, `with` releases the lock (control.py 181, 209).
GetReturn(result, bytes) ==
    /\ cret' = result
    /\ clip' = bytes
    /\ gpc' = "out"
    /\ locked' = FALSE

\* What get_clipboard leaves alone.
GetFrame ==
    UNCHANGED <<alive, resolution, last_frame, sockets, block_frame,
                frame_locker, pc, batch, dummy_byte, frame_evt,
                threaded, ret0, evt, firstFrame, stopped, clipboard_sequence,
                sessionClips, peer, reply, spc, sreg>>

\* The lock taken whoever holds it.
LockFreeAlways(held) == TRUE

\* `with control_socket_lock` (control.py 31, 181) is entered when no thread
\* holds the lock.
LockFree(held) == ~held

\* The messages written to the control socket, with one more.
Written(log, by, type, sequence) ==
    Append(log, [by |-> by, type |-> type, sequence |-> sequence])

\* get_clipboard is called (control.py 179-183): the lock is taken and the
\* socket made non-blocking; an unset socket has no setblocking, a closed one
\* refuses it.
get_clipboard ==
    /\ gpc = "out"
    /\ pc[Caller] = "idle"
    /\ LockFree(locked)
    /\ \E timeout \in Timeouts :
        cmd' = [name |-> "get_clipboard", args |-> <<timeout>>]
    /\ wire' = <<>>
    /\ polled' = 0
    /\ elapsed' = 0
    /\ IF control_socket = "open"
       THEN /\ locked' = TRUE
            /\ blocking' = FALSE
            /\ gpc' = "drain"
            /\ cret' = "running"
            /\ clip' = <<>>
       ELSE /\ GetReturn(IF control_socket = "none" THEN "AttributeError"
                         ELSE "OSError", <<>>)
            /\ blocking' = blocking
    /\ UNCHANGED <<glen, rx, line>>
    /\ GetFrame

\* The flush (control.py 184-188): recv(1024) takes what is buffered; with
\* nothing buffered it raises BlockingIOError, which ends the loop, unless
\* the peer has closed the connection: then it returns b"" and the loop goes
\* round again.
GetDrain ==
    /\ gpc = "drain"
    /\ IF rx # <<>> THEN /\ rx' = <<>>
                         /\ gpc' = gpc
       ELSE IF peer = "closed" THEN UNCHANGED <<rx, gpc>>
       ELSE /\ rx' = rx
            /\ gpc' = "send"
    /\ UNCHANGED <<cmdVars, polled, elapsed, glen, clip, blocking, locked, line>>
    /\ GetFrame

\* The request is sent (control.py 191-192).
GetSend ==
    /\ gpc = "send"
    /\ wire' = <<[type |-> "TYPE_GET_CLIPBOARD", copy_key |-> "SC_COPY_KEY_COPY"]>>
    /\ line' = Written(line, Caller, "TYPE_GET_CLIPBOARD", 0)
    /\ gpc' = "poll"
    /\ UNCHANGED <<clipboard_sequence, cret, cmd, polled, elapsed, glen, clip,
                   blocking, locked, rx>>
    /\ GetFrame

\* One iteration of _get_resp_code (control.py 194-211): past the last
\* iteration TimeoutError is raised; a byte read is the response code, which
\* the assert compares with TYPE_CLIPBOARD; no byte from a closed connection
\* fails struct.unpack; no byte yet means a sleep.
GetPoll ==
    /\ gpc = "poll"
    /\ IF polled >= PollLimit(cmd.args[1])
       THEN /\ GetReturn("TimeoutError", <<>>)
            /\ blocking' = Finally(blocking)
            /\ UNCHANGED <<polled, elapsed, rx>>
       ELSE IF rx # <<>>
       THEN /\ rx' = Tail(rx)
            /\ blocking' = Finally(blocking)
            /\ IF Head(rx) = TYPE_CLIPBOARD
               THEN /\ gpc' = "length"
                    /\ UNCHANGED <<cret, clip, locked>>
               ELSE GetReturn("AssertionError", <<>>)
            /\ UNCHANGED <<polled, elapsed>>
       ELSE IF peer = "closed"
       THEN /\ GetReturn("struct.error", <<>>)
            /\ blocking' = Finally(blocking)
            /\ UNCHANGED <<polled, elapsed, rx>>
       ELSE /\ polled' = polled + 1
            /\ elapsed' = elapsed + PollInterval
            /\ UNCHANGED <<cret, clip, gpc, locked, blocking, rx>>
    /\ UNCHANGED <<clipboard_sequence, wire, cmd, glen, line>>
    /\ GetFrame

\* `(length,) = struct.unpack(">i", s.recv(4))` (control.py 212-214): the
\* blocking recv waits for the first byte and returns what has arrived, up to
\* 4 bytes; fewer than 4 fail struct.unpack.
GetLength ==
    /\ gpc = "length"
    /\ rx # <<>> \/ peer = "closed"
    /\ LET n == Min(4, Len(rx))
       IN /\ rx' = SubSeq(rx, n + 1, Len(rx))
          /\ IF n < 4 THEN /\ GetReturn("struct.error", <<>>)
                           /\ glen' = glen
             ELSE IF UnpackInt(rx) = 0 THEN /\ GetReturn("ok", <<>>)
                                            /\ glen' = 0
             ELSE /\ glen' = UnpackInt(rx)
                  /\ gpc' = "body"
                  /\ UNCHANGED <<cret, clip, locked>>
    /\ UNCHANGED <<clipboard_sequence, wire, cmd, polled, elapsed, blocking, line>>
    /\ GetFrame

\* `return s.recv(length).decode("utf-8")` (control.py 216): the blocking
\* recv returns what has arrived, up to length bytes.
GetBody ==
    /\ gpc = "body"
    /\ rx # <<>> \/ peer = "closed"
    /\ LET n == Min(glen, Len(rx))
       IN /\ rx' = SubSeq(rx, n + 1, Len(rx))
          /\ GetReturn("ok", SubSeq(rx, 1, n))
    /\ UNCHANGED <<clipboard_sequence, wire, cmd, polled, elapsed, glen, blocking,
                   line>>
    /\ GetFrame

\* A step of the caller inside get_clipboard.
GetStep == GetDrain \/ GetSend \/ GetPoll \/ GetLength \/ GetBody

\* What the peer leaves alone.
PeerFrame ==
    UNCHANGED <<alive, resolution, last_frame, sockets, block_frame,
                frame_locker, pc, batch, dummy_byte, frame_evt,
                threaded, ret0, evt, firstFrame, stopped, cmdVars, sessionClips,
                gpc, polled, elapsed, glen, clip, blocking, locked, parVars>>

\* The device answers the request: with the clipboard, or with another tag.
PeerReply ==
    /\ peer = "responsive"
    /\ wire # <<>>
    /\ \E tag \in {TYPE_CLIPBOARD, 1}, n \in 0..MaxClip : reply' = Reply(tag, n)
    /\ peer' = "replying"
    /\ rx' = rx
    /\ PeerFrame

\* Some more bytes of the answer arrive.
PeerSend ==
    /\ peer = "replying"
    /\ reply # <<>>
    /\ \E k \in 1..Len(reply) :
        /\ rx' = rx \o SubSeq(reply, 1, k)
        /\ reply' = SubSeq(reply, k + 1, Len(reply))
    /\ peer' = peer
    /\ PeerFrame

\* A session with its peer: one that never sends, one that answers requests,
\* one that has closed the connection; bytes sent earlier may be buffered.
InitClip ==
    /\ CmdSession
    /\ gpc = "out"
    /\ polled = 0
    /\ elapsed = 0
    /\ glen = 0
    /\ clip = <<>>
    /\ blocking = TRUE
    /\ locked = FALSE
    /\ rx \in {<<>>, <<TYPE_CLIPBOARD>>}
    /\ peer \in {"silent", "responsive", "closed"}
    /\ reply = <<>>
    /\ SendersIdle

NextClip ==
    \/ Once /\ get_clipboard
    \/ GetDrain
    \/ GetSend
    \/ GetPoll
    \/ GetLength
    \/ GetBody
    \/ PeerReply
    \/ PeerSend

SpecClip == InitClip /\ [][NextClip]_vars

\* The caller's thread is scheduled while it is inside get_clipboard.
SpecClipLive == SpecClip /\ WF_vars(GetStep)

\* ------------------------------------------------- concurrent control senders

\* What a sender thread leaves alone.
SenderFrame ==
    UNCHANGED <<alive, resolution, last_frame, sockets, block_frame,
                frame_locker, pc, batch, dummy_byte, frame_evt,
                threaded, ret0, evt, firstFrame, stopped, wire, cret, cmd,
                sessionClips, gpc, polled, elapsed, glen, clip, blocking, rx,
                peer, reply>>

\* Sender threads are followed until the caller's get_clipboard has ended;
\* each of them calls one command.
Room == cret \in {"none", "running"}

\* A thread calls a command without a sequence number (keycode, control.py
\* 47-59): the body packs its arguments.
SenderKeycode(s) ==
    /\ spc[s] = "idle"
    /\ Room
    /\ sreg' = [sreg EXCEPT ![s] = [type |-> "TYPE_INJECT_KEYCODE", sequence |-> 0]]
    /\ spc' = [spc EXCEPT ![s] = "lock"]
    /\ UNCHANGED <<clipboard_sequence, locked, line>>
    /\ SenderFrame

\* A thread calls set_clipboard (control.py 218-232) with a text of allowed
\* length: `self._clipboard_sequence += 1` first reads the field,
SenderRead(s) ==
    /\ spc[s] = "idle"
    /\ Room
    /\ clipboard_sequence < MaxSeq
    /\ sreg' = [sreg EXCEPT ![s] = [type |-> "TYPE_SET_CLIPBOARD",
                                     sequence |-> clipboard_sequence]]
    /\ spc' = [spc EXCEPT ![s] = "inc"]
    /\ UNCHANGED <<clipboard_sequence, locked, line>>
    /\ SenderFrame

\* then stores the value read plus one (control.py 231),
SenderInc(s) ==
    /\ spc[s] = "inc"
    /\ clipboard_sequence' = sreg[s].sequence + 1
    /\ spc' = [spc EXCEPT ![s] = "pack"]
    /\ UNCHANGED <<sreg, locked, line>>
    /\ SenderFrame

\* and struct.pack reads the field again (control.py 232).
SenderPack(s) ==
    /\ spc[s] = "pack"
    /\ sreg' = [sreg EXCEPT ![s].sequence = clipboard_sequence]
    /\ spc' = [spc EXCEPT ![s] = "lock"]
    /\ UNCHANGED <<clipboard_sequence, locked, line>>
    /\ SenderFrame

\* inject enters `with control_socket_lock` if the socket is set (control.py
\* 30-31); on an unset socket it returns the package.
SenderLock(s) ==
    /\ spc[s] = "lock"
    /\ IF SocketSet(control_socket)
       THEN /\ LockFree(locked)
            /\ locked' = TRUE
            /\ spc' = [spc EXCEPT ![s] = "send"]
       ELSE /\ locked' = locked
            /\ spc' = [spc EXCEPT ![s] = "done"]
    /\ sreg' = IF SocketSet(control_socket) THEN sreg
               ELSE [sreg EXCEPT ![s] = NoPackage]
    /\ UNCHANGED <<clipboard_sequence, line>>
    /\ SenderFrame

\* The package is sent and the lock released (control.py 31-33); send() on a
\* closed socket raises OSError, which releases the lock as well.
SenderSend(s) ==
    /\ spc[s] = "send"
    /\ line' = IF Send(control_socket) = "sent"
               THEN Written(line, s, sreg[s].type, sreg[s].sequence)
               ELSE line
    /\ locked' = FALSE
    /\ spc' = [spc EXCEPT ![s] = "done"]
    /\ sreg' = [sreg EXCEPT ![s] = NoPackage]
    /\ UNCHANGED clipboard_sequence
    /\ SenderFrame

\* A streaming session whose device may answer get_clipboard, in time or not.
InitPar ==
    /\ CmdSession
    /\ alive
    /\ resolution = None
    /\ gpc = "out"
    /\ polled = 0
    /\ elapsed = 0
    /\ glen = 0
    /\ clip = <<>>
    /\ blocking = TRUE
    /\ locked = FALSE
    /\ rx = <<>>
    /\ peer = "responsive"
    /\ reply = <<>>
    /\ SendersIdle

NextPar ==
    \/ Once /\ get_clipboard
    \/ GetDrain
    \/ GetSend
    \/ GetPoll
    \/ GetLength
    \/ GetBody
    \/ PeerReply
    \/ PeerSend
    \/ \E s \in Senders : SenderKeycode(s)
    \/ \E s \in Senders : SenderLock(s)
    \/ \E s \in Senders : SenderSend(s)

SpecPar == InitPar /\ [][NextPar]_vars

\* The sender threads call set_clipboard or keycode.
NextSet ==
    \/ \E s \in Senders : SenderKeycode(s)
    \/ \E s \in Senders : SenderRead(s)
    \/ \E s \in Senders : SenderInc(s)
    \/ \E s \in Senders : SenderPack(s)
    \/ \E s \in Senders : SenderLock(s)
    \/ \E s \in Senders : SenderSend(s)

SpecSet == InitPar /\ [][NextSet]_vars

\* ================================================================== claims

\* C1 (as claimed, for a session that is Streaming): a start() made while a
\* frame loop of the client has been started and has not ended is rejected:
\* no step of the caller passes the assert of start() in such a state.
C1_StartRejectedWhileStreaming ==
    [][(pc[Caller] = "idle" /\ pc'[Caller] = "deploying")
         => ~(\E r \in Runners : InLoop(r))]_vars

\* C2 (as claimed): whenever a stop() of the caller returns, alive is False
\* and no handle of the client is open.
C2_StopReturnsStopped ==
    [][(pc[Caller] = "stop_close" /\ pc'[Caller] = "idle")
         => (/\ alive' = FALSE
             /\ server_stream' # "open"
             /\ control_socket' # "open"
             /\ video_socket' # "open")]_vars

\* C3: a frame loop that meets the read error while alive dispatches
\* Disconnect once (or ends with the listener's own failure), then runs
\* stop(), which clears alive and closes the handles, and only then lets the
\* error out: to the caller of an inline start(), while a worker thread ends
\* without re-raising. After its Disconnect event the loop dispatches
\* nothing more.
C3_Step(r) ==
    /\ (pc[r] = "handler" /\ pc'[r] # "handler" /\ alive)
         => \/ evt'[r] = "disc" /\ pc'[r] = "h_stop"
            \/ evt'[r] = "none" /\ pc'[r] = Died(r)
    /\ (pc[r] = "handler" /\ pc'[r] # "handler" /\ ~alive)
         => (evt'[r] = "none" /\ pc'[r] = "test")
    /\ evt'[r] \in {"none", "disc"}
    /\ evt'[r] = "disc" => pc'[r] \in {"h_stop", "h_close"}
    /\ (pc[r] = "h_stop" /\ pc'[r] # "h_stop")
         => (pc'[r] = "h_close" /\ alive' = FALSE)
    /\ (pc[r] = "h_close" /\ pc'[r] # "h_close")
         => /\ evt[r] = "disc"
            /\ server_stream' # "open"
            /\ control_socket' # "open"
            /\ video_socket' # "open"
            /\ pc'[r] = (IF r = Caller THEN "idle" ELSE "off")
            /\ r = Caller => ret0' = "ConnErr"

C3_DisconnectThenStopThenRaise == [][\A r \in Runners : C3_Step(r)]_vars

\* C3 witness: an inline start() has raised the disconnect error to its
\* caller, after the teardown.
C3_Witness ==
    /\ ret0 = "ConnErr"
    /\ pc[Caller] = "idle"
    /\ video_socket = "closed"

\* C4: once a stop() of the caller has returned, every worker thread's frame
\* loop ends, unless the caller starts the client again.
C4_StopEndsWorker == stopped ~> (~stopped \/ \A w \in Workers : Free(w))

\* C4 witness: stop() has returned while a worker thread is still inside the
\* frame loop.
C4_Witness == stopped /\ \E w \in Workers : InLoop(w)

\* C5 (as claimed): resolution is unset until the first frame of the session
\* is decoded, and from then on it is that frame's size.
C5_ResolutionIsFirstFrame == resolution \in {None, firstFrame}

\* The commands that go through inject and carry no coordinates, with the
\* tag each one sends.
NonCoordinate ==
    [keycode |-> "TYPE_INJECT_KEYCODE",
     text |-> "TYPE_INJECT_TEXT",
     back_or_turn_screen_on |-> "TYPE_BACK_OR_SCREEN_ON",
     expand_notification_panel |-> "TYPE_EXPAND_NOTIFICATION_PANEL",
     expand_settings_panel |-> "TYPE_EXPAND_SETTINGS_PANEL",
     collapse_panels |-> "TYPE_COLLAPSE_PANELS",
     set_display_power |-> "TYPE_SET_DISPLAY_POWER",
     rotate_device |-> "TYPE_ROTATE_DEVICE"]

\* C6. While resolution is unset, touch, scroll and swipe end with the
\* precondition error (ValueError) and nothing is written to the control
\* socket; keycode, text, back/screen-on, the panel commands, display-power
\* and rotate called on a connected control socket succeed and have their one
\* message written, whether resolution is known or not.
C6_ResolutionGatesCoordinateCommands ==
    /\ (cmd.name \in {"touch", "scroll", "swipe"} /\ resolution = None)
          => (cret = "ValueError" /\ wire = <<>>)
    /\ (cmd.name \in DOMAIN NonCoordinate /\ control_socket = "open")
          => /\ cret = "ok"
             /\ Len(wire) = 1
             /\ wire[1].type = NonCoordinate[cmd.name]

C6_Witness ==
    /\ cmd.name = "swipe"
    /\ resolution = None
    /\ control_socket = "open"
    /\ cret = "ValueError"

\* C7. The coordinates written by a touch or scroll that succeeded lie inside
\* the screen: 0 <= x <= w - 1 and 0 <= y <= h - 1 for the resolution (w, h).
C7_CoordinatesInsideScreen ==
    (cmd.name \in {"touch", "scroll"} /\ cret = "ok" /\ wire # <<>>)
        => /\ 0 <= wire[1].x /\ wire[1].x <= resolution[1] - 1
           /\ 0 <= wire[1].y /\ wire[1].y <= resolution[2] - 1

\* C8. A swipe that succeeded on a connected control socket wrote n + 1 touch
\* events, n = max(round(distance / move_step_length), 1) with halves rounded
\* up: a down at the clamped start point, n - 1 moves and an up last. From
\* one event to the next each coordinate moves in the direction from start to
\* end or stays. When both per-step increments are integers the up is at the
\* clamped end point. Coincident end points give a down and an up only.
\* swipe(0, 0, 100, 0, move_step_length=10) on 200x200 gives 11 events, all
\* with y = 0, the last with x = 100.
C8_SwipeEvents ==
    (cmd.name = "swipe" /\ cret = "ok" /\ control_socket = "open") =>
        LET a == cmd.args
            sx == Clamp(a[1], resolution[1])
            sy == Clamp(a[2], resolution[2])
            ex == Clamp(a[3], resolution[1])
            ey == Clamp(a[4], resolution[2])
            d2 == (ex - sx) * (ex - sx) + (ey - sy) * (ey - sy)
            n == Len(wire) - 1
        IN /\ n >= 1
           /\ n > 1 => ((2 * n - 1) * a[5]) * ((2 * n - 1) * a[5]) <= 4 * d2
           /\ ((2 * n + 1) * a[5]) * ((2 * n + 1) * a[5]) > 4 * d2
           /\ wire[1].action = "ACTION_DOWN"
           /\ wire[1].x = sx /\ wire[1].y = sy
           /\ \A i \in 2..n : wire[i].action = "ACTION_MOVE"
           /\ wire[n + 1].action = "ACTION_UP"
           /\ \A i \in 1..n :
               /\ IF ex >= sx THEN wire[i].x <= wire[i + 1].x
                              ELSE wire[i].x >= wire[i + 1].x
               /\ IF ey >= sy THEN wire[i].y <= wire[i + 1].y
                              ELSE wire[i].y >= wire[i + 1].y
           /\ ((ex - sx) % n = 0 /\ (ey - sy) % n = 0)
                 => (wire[n + 1].x = ex /\ wire[n + 1].y = ey)
           /\ (ex = sx /\ ey = sy) => n = 1
           /\ (a = <<0, 0, 100, 0, 10>> /\ resolution = <<200, 200>>)
                 => /\ n = 10
                    /\ \A i \in 1..11 : wire[i].y = 0
                    /\ wire[11].x = 100

C8_Witness ==
    /\ cmd.name = "swipe"
    /\ cmd.args = <<0, 0, 100, 0, 10>>
    /\ resolution = <<200, 200>>
    /\ cret = "ok"
    /\ Len(wire) = 11

\* C9. The k-th set-clipboard message written to the control socket of a
\* session (the socket start() connected) carries sequence number k.
C9_SequenceCountsFromSessionStart ==
    \A k \in DOMAIN sessionClips : sessionClips[k] = k

\* C10. A get_clipboard(timeout) call on a connected peer that sends nothing
\* sleeps at most timeout \div 200 times, 200 ms each, which is no more than
\* timeout plus one interval, and then raises TimeoutError.
C10_SilentPeerTimesOut ==
    /\ [](cmd.name = "get_clipboard"
            => /\ polled <= cmd.args[1] \div PollInterval
               /\ elapsed = polled * PollInterval
               /\ elapsed <= cmd.args[1] + PollInterval)
    /\ (gpc # "out" /\ peer = "silent") ~> (gpc = "out" /\ cret = "TimeoutError")

C10_Witness ==
    /\ cmd.name = "get_clipboard"
    /\ peer = "silent"
    /\ gpc = "out"
    /\ cret = "TimeoutError"
    /\ polled = MaxPolls

\* The session as the frame loop and stop() leave it.
session == <<alive, resolution, last_frame, server_stream, video_socket,
             control_socket>>

\* C11. No step of a get_clipboard call changes alive, resolution,
\* last_frame or a socket handle, and a call that ended in TimeoutError has
\* released the control-socket lock and put the control socket, still open,
\* back in blocking mode.
C11_TimeoutLeavesSession ==
    /\ [][gpc # "out" => UNCHANGED session]_vars
    /\ []((gpc = "out" /\ cret = "TimeoutError")
            => (~locked /\ blocking /\ control_socket = "open"))

C11_Witness ==
    /\ gpc = "out"
    /\ cret = "TimeoutError"
    /\ alive
    /\ resolution # None
    /\ last_frame # None

\* The threads inside `with control_socket_lock`.
InLock == {s \in Senders : spc[s] = "send"}
             \cup (IF gpc # "out" THEN {Caller} ELSE {})

\* C12. From the drain of get_clipboard until it returns or raises, the only
\* message written to the control socket is get_clipboard's own request; at
\* most one thread is inside the lock at a time, so that messages are written
\* whole one after another; and every write, an injected command's as well as
\* get_clipboard's, is made by the thread that holds control_socket_lock.
C12_ExchangeExcludesSenders ==
    /\ [](Cardinality(InLock) <= 1 /\ (InLock # {} => locked))
    /\ [][line' # line =>
            /\ Len(line') = Len(line) + 1
            /\ SubSeq(line', 1, Len(line)) = line
            /\ InLock = {line'[Len(line')].by}
            /\ (gpc # "out" => line'[Len(line')].by = Caller)]_vars

\* A sender has written, then get_clipboard its request while another sender
\* waits for the lock.
C12_Witness ==
    /\ gpc = "poll"
    /\ Len(line) = 2
    /\ line[1].by \in Senders
    /\ line[2].by = Caller
    /\ \E s \in Senders : spc[s] = "lock"

\* C13. While a consumer holds the frame lock last_frame keeps its value: no
\* step taken with the lock held before and after it changes last_frame.
C13_SlotStableWhileLocked ==
    [][(frame_locker /\ frame_locker') => last_frame' = last_frame]_vars

\* A frame loop is started by the step.
LoopStarted == \E r \in Runners : pc'[r] = "enter" /\ pc[r] # "enter"

\* C14. start() starts the frame loop only when the byte read from the video
\* socket was 0x00. When the byte is another one, the read is empty, or no
\* byte or connection came in time, start() ends with its error in the
\* caller's thread in that very step, before the Init event, starting no
\* frame loop and dispatching nothing, and it leaves alive, which was False
\* when start() was entered, as it is.
C14_HandshakeGatesStreaming ==
    [][/\ LoopStarted => (pc[Caller] = "checking" /\ dummy_byte = "zero")
       /\ (pc[Caller] = "checking" /\ pc'[Caller] # "checking"
                                    /\ dummy_byte # "zero")
             => (/\ pc'[Caller] = "idle"
                 /\ ret0' = "StartErr"
                 /\ ~LoopStarted
                 /\ UNCHANGED <<alive, evt, batch>>)
       /\ (pc[Caller] = "handshaking" /\ pc'[Caller] = "idle")
             => (/\ ret0' = "StartErr"
                 /\ ~LoopStarted
                 /\ UNCHANGED <<alive, evt, batch>>)]_vars

\* start() has connected both sockets and failed, on a client that never
\* had a frame loop.
C14_Witness ==
    /\ pc[Caller] = "idle"
    /\ ret0 = "StartErr"
    /\ control_socket = "open"
    /\ firstFrame = None
    /\ ~alive
    /\ \A w \in Workers : pc[w] = "off"

\* C15. A scroll with steps h and v in -16..16 on a session with a known
\* resolution and a connected control socket succeeds and writes one message
\* whose delta fields are the signed 16-bit fixed-point values of h/16 and
\* v/16.
C15_ScrollSignedSteps ==
    (/\ cmd.name = "scroll"
     /\ resolution # None
     /\ control_socket = "open"
     /\ cmd.args[3] \in -16..16
     /\ cmd.args[4] \in -16..16)
        => /\ cret = "ok"
           /\ Len(wire) = 1
           /\ wire[1].h = float_to_i16(cmd.args[3], 16).v
           /\ wire[1].v = float_to_i16(cmd.args[4], 16).v

\* C16. A touch with a pressure p in [0, 1] (p = args[5] / 2) that succeeded
\* on a connected control socket wrote the unsigned 16-bit fixed-point value
\* of p in its pressure field: trunc(p * 65536) clamped to 0..65535.
C16_PressureFixedPoint ==
    (/\ cmd.name = "touch"
     /\ cmd.args[5] \in 0..2
     /\ cret = "ok"
     /\ wire # <<>>)
        => wire[1].pressure = Min(Max(Trunc(cmd.args[5] * 65536, 2), 0), 65535)

\* C17. A get_clipboard call that read the tag TYPE_CLIPBOARD of the device's
\* answer ends ok, having consumed the length field and all `length` bytes of
\* the payload, which it returns: nothing of the answer is left unread or
\* unsent, in whatever pieces the answer arrived.
C17_ReadsWholeAnswer ==
    (/\ gpc = "out"
     /\ peer = "replying"
     /\ cret \notin {"TimeoutError", "AssertionError"})
        => /\ cret = "ok"
           /\ Len(clip) = glen
           /\ rx = <<>>
           /\ reply = <<>>

\* Thread r leaves the read of the video socket, having found nothing to read.
WouldBlock(r) ==
    pc[r] = "recv" /\ pc'[r] # "recv" /\ frame_evt'.read = "block"

\* Thread r leaves the handling of a decoded frame.
FrameHandled(r) ==
    pc[r] \in {"store", "latch"} /\ pc'[r] \notin {"store", "latch"}

\* One Frame event, with argument a, is dispatched by the step.
OneFrameEvent(a) ==
    frame_evt'.n = 1 - frame_evt.n /\ frame_evt'.arg = a

C19_OneFrameLoop == Cardinality({r \in Runners : InLoop(r)}) <= 1

\* The sequence numbers of the set-clipboard messages written, in write order.
ClipSequences ==
    LET at == {i \in 1..Len(line) : line[i].type = "TYPE_SET_CLIPBOARD"}
    IN [i \in at |-> line[i].sequence]

\* C20. The set-clipboard messages written to the control socket by
\* concurrent callers carry distinct sequence numbers that increase strictly
\* in the order of writing.
C20_SequencesIncreaseOnWire ==
    \A i, j \in DOMAIN ClipSequences : i < j => ClipSequences[i] < ClipSequences[j]

\* C21. A get_clipboard call that has entered the drain loop leaves it: it
\* goes on to send the request, or ends.
C21_DrainTerminates == (gpc = "drain") ~> (gpc # "drain")

\* No thread is inside the frame loop and the caller is inside no call.
NoLoop ==
    /\ \A r \in Runners : ~InLoop(r)
    /\ pc[Caller] = "idle"

\* C22. When no frame loop is running alive is False, and the sockets of a
\* session whose loop has decoded a frame and ended are closed.
C22_EndedLoopLeavesStopped ==
    NoLoop => /\ ~alive
              /\ firstFrame # None =>
                    /\ video_socket = "closed"
                    /\ control_socket = "closed"
====
